---------------------------- MODULE Spec2Model ----------------------------
(***************************************************************************)
(* A model of cdpctl's protocol client (src/src/cdpctl/core.py):           *)
(* CdpClient (request/response correlation by id, the reader task, event   *)
(* fan-out to bounded queues, close), the two wait helpers built on it,    *)
(* wait_ready_state and wait_network_idle, and HttpClient.resolve_ws_url.  *)
(*                                                                         *)
(* One asyncio event loop runs everything: an action is the code a task    *)
(* runs between two suspension points (await), which no other task can     *)
(* interleave with.  The frames the remote end sends are the inputs.       *)
(***************************************************************************)
EXTENDS Integers, Sequences, FiniteSets, TLC

(***************************************************************************)
(* Bounds of the model.                                                    *)
(***************************************************************************)
MaxCalls == 3        \* send calls issued on the client
MaxFrames == 3       \* messages the reader task receives (request side)
MaxEvents == 4       \* messages the reader task receives (event side)
MaxSubs == 2         \* subscribe calls
MaxQueue == 2        \* largest maxsize passed to subscribe
MaxClose == 2        \* close calls
MaxTimeout == 5      \* largest timeout_s of wait_ready_state, in ticks
MaxReadyFrames == 3  \* messages the reader receives during wait_ready_state
MaxQuiet == 2        \* largest quiet_ms of wait_network_idle, in ticks
MaxIdleTimeout == 5  \* largest timeout_s of wait_network_idle, in ticks
MaxIdleFrames == 5   \* messages the reader receives during wait_network_idle
MaxNavFrames == 6    \* messages the reader receives during cmd_navigate
MaxTabs == 2         \* tabs in the answer of HttpClient.list_tabs
DefaultMaxsize == 2  \* the capacity of the queue that wait_network_idle
                     \* subscribes with (subscribe's default, 2048 in the
                     \* source), scaled down to the model's number of events

(***************************************************************************)
(* Time is counted in ticks: of 50 ms where wait_ready_state runs, of      *)
(* 125 ms where wait_network_idle runs.                                    *)
(***************************************************************************)
SleepTicks == 2      \* asyncio.sleep(0.1) in wait_ready_state
PollTicks == 2       \* the 0.25 s that wait_network_idle waits for an event
NavQuiet == 4        \* the quiet_ms = 500 that cmd_navigate passes

VARIABLES
    _id,          \* CdpClient._id: the last request id allocated
    calls,        \* the send calls so far, in order of invocation; each holds
                  \* its local msg_id, its future and where the call stands
    _pending,     \* CdpClient._pending: request id -> future (the index in
                  \* calls of the send call that created the future)
    _event_subs,  \* CdpClient._event_subs: the list of subscription queues
    wsClosed,     \* ws.closed
    reader,       \* the state of CdpClient._reader_task
    closePc,      \* where the running close call stands
    nclose,       \* close calls started so far
    nrecv,        \* messages received by the reader so far
    pendingAtEnd, \* history: the futures in _pending that were not done when
                  \* the reader task left its loop
    pendingAtClose, \* history: the futures not done when close was called
    lastEvtAt,    \* history: when the reader last handled an event
    lastMsg,      \* history: the message the reader handled last, in the
                  \* specifications that follow the reader message by message
    now,          \* loop.time(), in ticks
    rs,           \* the locals of the running wait_ready_state call
    ni,           \* the locals of the running wait_network_idle call
    rw,           \* the locals of the running HttpClient.resolve_ws_url call
    nav           \* the locals of the running cmd_navigate call

vars == << _id, calls, _pending, _event_subs, wsClosed, reader, closePc,
           nclose, nrecv, pendingAtEnd, pendingAtClose, lastEvtAt, lastMsg, now,
           rs, ni, rw, nav >>

sendVars == << _id, calls, _pending >>
readerVars == << reader, nrecv, pendingAtEnd, lastEvtAt, lastMsg >>
closeVars == << wsClosed, closePc, nclose, pendingAtClose >>
waitVars == << now, rs, ni, rw, nav >>

NoFrame == [type |-> "NONE"]

(***************************************************************************)
(* The messages ws can deliver to `async for msg in self.ws`.  A TEXT      *)
(* message either fails json.loads (ok = FALSE) or decodes to an object:   *)
(* id is data.get("id") (0 also stands for an absent id: both are falsy;   *)
(* ids are the unsigned integers of the protocol, which int() leaves as    *)
(* they are),                                                              *)
(* error is data.get("error") ("absent", "empty": a falsy value, or "set"),*)
(* method is data.get("method"), value is data["result"]["result"]["value"]*)
(* ("" when there is none), result tells whether data has a "result"       *)
(* member ("absent" or "set").  seq numbers the message in the stream and  *)
(* stands for its content where a payload is passed on.                    *)
(* ws.receive raising instead of delivering a message is the type RAISE.   *)
(***************************************************************************)
TextFrame(i, e, m, v, n) ==
    [type |-> "TEXT", ok |-> TRUE, id |-> i, error |-> e, method |-> m,
     value |-> v, result |-> IF v = "" THEN "absent" ELSE "set", seq |-> n]

\* a response, with or without the members "error" and "result"
ResponseFrame(i, e, r, n) ==
    [type |-> "TEXT", ok |-> TRUE, id |-> i, error |-> e, method |-> "",
     value |-> "", result |-> r, seq |-> n]

BadTextFrame(n) ==
    [type |-> "TEXT", ok |-> FALSE, id |-> 0, error |-> "absent", method |-> "",
     value |-> "", result |-> "absent", seq |-> n]

OtherFrame(t, n) ==
    [type |-> t, ok |-> TRUE, id |-> 0, error |-> "absent", method |-> "",
     value |-> "", result |-> "absent", seq |-> n]


(***************************************************************************)
(* Helpers on the model's data.                                            *)
(***************************************************************************)
\* a send call that has neither returned nor raised
NoReturn == [what |-> "", of |-> 0]

Range(f) == {f[x] : x \in DOMAIN f}

SeqToSet(s) == {s[i] : i \in 1..Len(s)}

\* asyncio.Future.done()
FutDone(c) == c.fut # "pending"

\* asyncio.Queue.full(): a queue with maxsize <= 0 is never full
Full(q) == q.maxsize > 0 /\ Len(q.items) >= q.maxsize

\* (mutant) the increment is missing
NextIdSame(cur) == cur

\* CdpClient._next_id: increments self._id and returns the new value
NextId(cur) == cur + 1

\* (mutant) the response goes to the oldest pending request, whatever its id
PendingPopOldest(pend, i) ==
    IF DOMAIN pend = {} THEN 0
    ELSE pend[CHOOSE j \in DOMAIN pend : \A l \in DOMAIN pend : j <= l]

\* self._pending.pop(int(data["id"]), None): the future registered under the
\* id, 0 for None
PendingPop(pend, i) == IF i \in DOMAIN pend THEN pend[i] ELSE 0

\* what pop leaves in the dict
PendingWithout(pend, i) == [j \in DOMAIN pend \ {i} |-> pend[j]]

\* the futures that `for fut in self._pending.values(): if not fut.done()`
\* selects
NotDonePending(pend, cs) == {k \in Range(pend) : ~FutDone(cs[k])}

\* (mutant) the event is put at the front of the queue
OfferFront(q, data) ==
    IF ~Full(q)
    THEN [q EXCEPT !.items = << data >> \o @, !.offered = Append(@, data)]
    ELSE [q EXCEPT !.offered = Append(@, data)]

\* `if not q.full(): await q.put(data)` on one queue; put on a queue that is
\* not full returns without suspending
Offer(q, data) ==
    IF ~Full(q)
    THEN [q EXCEPT !.items = Append(@, data), !.offered = Append(@, data)]
    ELSE [q EXCEPT !.offered = Append(@, data)]

\* (mutant) one full queue makes the reader drop the event for every queue
BroadcastAllOrNone(subs, data) ==
    IF \E i \in 1..Len(subs) : Full(subs[i])
    THEN [i \in 1..Len(subs) |-> [subs[i] EXCEPT !.offered = Append(@, data)]]
    ELSE [i \in 1..Len(subs) |->
             [subs[i] EXCEPT !.items = Append(@, data), !.offered = Append(@, data)]]

\* `for q in list(self._event_subs)`: the event is offered to every queue
Broadcast(subs, data) == [i \in 1..Len(subs) |-> Offer(subs[i], data)]

(***************************************************************************)
(* CdpClient.__init__: no id allocated, nothing pending, no subscription,  *)
(* the reader task created.                                                *)
(***************************************************************************)
ClientInit ==
    /\ _id = 0
    /\ calls = << >>
    /\ _pending = << >>
    /\ _event_subs = << >>
    /\ wsClosed = FALSE
    /\ reader = "running"
    /\ closePc = "idle"
    /\ nclose = 0
    /\ nrecv = 0
    /\ pendingAtEnd = {}
    /\ pendingAtClose = {}
    /\ lastEvtAt = 0
    /\ lastMsg = NoFrame

(***************************************************************************)
(* CdpClient.send up to `await fut`: allocate the id, register the future, *)
(* write the request.  ws.send_str raises on a closed websocket, and then  *)
(* the call ends with that exception (its entry stays in _pending).        *)
(***************************************************************************)
NewCall(msg_id) ==
    [msg_id |-> msg_id, fut |-> "pending", resp |-> NoFrame,
     st |-> IF wsClosed THEN "raised" ELSE "awaiting",
     ret |-> IF wsClosed THEN [what |-> "send_str error", of |-> 0]
             ELSE NoReturn]

\* self._pending[msg_id] = fut, fut being the future of call k
PendingWith(pend, msg_id, k) ==
    [j \in DOMAIN pend \cup {msg_id} |-> IF j = msg_id THEN k ELSE pend[j]]

SendRegister ==
       LET msg_id == NextId(_id)
           k == Len(calls) + 1
       IN  /\ _id' = msg_id
           /\ _pending' = PendingWith(_pending, msg_id, k)
           /\ calls' = Append(calls, NewCall(msg_id))

SendStart ==
    /\ Len(calls) < MaxCalls
    /\ SendRegister
    /\ UNCHANGED << _event_subs, readerVars, closeVars, waitVars >>

(***************************************************************************)
(* CdpClient.send after `await fut`: the future's exception is raised; a   *)
(* response with a truthy "error" raises; any other response returns.      *)
(* In a call, ret (what it raised or returned) is where the caller sees    *)
(* the payload: `of` is the message the payload was taken from.            *)
(***************************************************************************)
SendOutcome(c) ==
    IF c.fut = "exception" THEN "raised"
    ELSE IF c.resp.error = "set" THEN "raised"
    ELSE "returned"

\* (mutant) a response that has a result returns it, error or not
SendReturnResultFirst(c) ==
    IF c.fut = "exception" THEN [what |-> "reader error", of |-> 0]
    ELSE IF c.resp.result = "set" THEN [what |-> "result", of |-> c.resp.seq]
    ELSE IF c.resp.error = "set" THEN [what |-> "CDP error", of |-> c.resp.seq]
    ELSE [what |-> "{}", of |-> 0]

\* what the call raises or returns: the future's exception, a RuntimeError
\* made of the code and message of resp["error"], or resp.get("result", {})
SendReturn(c) ==
    IF c.fut = "exception" THEN [what |-> "reader error", of |-> 0]
    ELSE IF c.resp.error = "set" THEN [what |-> "CDP error", of |-> c.resp.seq]
    ELSE IF c.resp.result = "set" THEN [what |-> "result", of |-> c.resp.seq]
    ELSE [what |-> "{}", of |-> 0]

SendFinish(c) == [c EXCEPT !.st = SendOutcome(c), !.ret = SendReturn(c)]

SendResume(k) ==
    /\ calls[k].st = "awaiting"
    /\ calls[k].fut \in {"result", "exception"}
    /\ calls' = [calls EXCEPT ![k] = SendFinish(calls[k])]
    /\ UNCHANGED << _id, _pending, _event_subs, readerVars, closeVars, waitVars >>

(***************************************************************************)
(* The task awaiting in send is cancelled (asyncio.wait_for's timeout does *)
(* this): the future it awaits is cancelled, its entry stays in _pending.  *)
(***************************************************************************)
CancelSend(k) ==
    /\ calls[k].st = "awaiting"
    /\ calls[k].fut = "pending"
    /\ calls' = [calls EXCEPT ![k].st = "cancelled", ![k].fut = "cancelled"]
    /\ UNCHANGED << _id, _pending, _event_subs, readerVars, closeVars, waitVars >>

(***************************************************************************)
(* CdpClient.subscribe                                                     *)
(***************************************************************************)
\* (mutant) a new queue starts with the events an earlier queue was offered
NewQueueReplay(maxsize) ==
    [maxsize |-> maxsize,
     items |-> IF Len(_event_subs) > 0 /\ Len(_event_subs[1].offered) > 0
               THEN << _event_subs[1].offered[1] >> ELSE << >>,
     regAt |-> nrecv, got |-> << >>, offered |-> << >>]

NewQueue(maxsize) ==
    [maxsize |-> maxsize, items |-> << >>, regAt |-> nrecv, got |-> << >>,
     offered |-> << >>]

Subscribe(maxsize) ==
    /\ Len(_event_subs) < MaxSubs
    /\ _event_subs' = Append(_event_subs, NewQueue(maxsize))
    /\ UNCHANGED << sendVars, readerVars, closeVars, waitVars >>

(***************************************************************************)
(* The owner of queue i takes the next event: q.get() on a queue that is   *)
(* not empty.  In a queue, regAt (the number of messages the reader had    *)
(* handled when it was registered), offered (every event the reader        *)
(* handled since) and got (what its owner has read) are history.           *)
(***************************************************************************)
QueueGet(i) ==
    /\ Len(_event_subs[i].items) > 0
    /\ _event_subs' = [_event_subs EXCEPT
            ![i].got = Append(@, Head(_event_subs[i].items)),
            ![i].items = Tail(@)]
    /\ UNCHANGED << sendVars, readerVars, closeVars, waitVars >>

(***************************************************************************)
(* CdpClient._reader, one message of `async for msg in self.ws`.           *)
(*                                                                         *)
(* A TEXT message that decodes and has a truthy id pops the future         *)
(* registered under that id and, when there is one that is not done, sets  *)
(* the message as its result; a TEXT message without a truthy id is        *)
(* offered to every subscription queue.  An ERROR message breaks out of    *)
(* the loop; a CLOSE/CLOSING/CLOSED message ends the iteration; in both    *)
(* cases the coroutine returns.  Any exception (json.loads on a TEXT       *)
(* message that does not decode, ws.receive raising, e.g. on                *)
(* receive_timeout) runs the handler that sets an exception on every       *)
(* pending future that is not done.  Messages of other types are skipped.  *)
(* The websocket (opened by ws_connect with its default autoclose) is       *)
(* closed by the time it delivers an ERROR or a CLOSE/CLOSED message.       *)
(***************************************************************************)
\* (mutant) the result is set whether the future is done or not
SetResultAlways(cs, k, data) ==
    IF k # 0
    THEN [cs EXCEPT ![k].fut = "result", ![k].resp = data]
    ELSE cs

SetResult(cs, k, data) ==
    IF k # 0 /\ ~FutDone(cs[k])
    THEN [cs EXCEPT ![k].fut = "result", ![k].resp = data]
    ELSE cs

\* (mutant) the handler stops after the first pending future
SetExceptionsFirst(cs, ks) ==
    [k \in 1..Len(cs) |->
        IF k \in ks /\ ~FutDone(cs[k]) /\ (\A j \in ks : ~FutDone(cs[j]) => k <= j)
        THEN [cs[k] EXCEPT !.fut = "exception"]
        ELSE cs[k]]

\* (mutant) the exception is set whether the future is done or not
SetExceptionsAll(cs, ks) ==
    [k \in 1..Len(cs) |->
        IF k \in ks THEN [cs[k] EXCEPT !.fut = "exception"] ELSE cs[k]]

SetExceptions(cs, ks) ==
    [k \in 1..Len(cs) |->
        IF k \in ks /\ ~FutDone(cs[k]) THEN [cs[k] EXCEPT !.fut = "exception"]
        ELSE cs[k]]

ReaderRaises(msg) ==
    \/ msg.type = "RAISE"
    \/ msg.type = "TEXT" /\ ~msg.ok

ReaderText(msg) ==
    /\ msg.type = "TEXT" /\ msg.ok
    /\ UNCHANGED wsClosed
    /\ IF msg.id # 0
       THEN /\ calls' = SetResult(calls, PendingPop(_pending, msg.id), msg)
            /\ _pending' = PendingWithout(_pending, msg.id)
            /\ UNCHANGED _event_subs
            /\ UNCHANGED lastEvtAt
       ELSE /\ _event_subs' = Broadcast(_event_subs, msg)
            /\ lastEvtAt' = now
            /\ UNCHANGED << calls, _pending >>
    /\ UNCHANGED << reader, pendingAtEnd >>

ReaderSkip(msg) ==
    /\ msg.type = "BINARY"
    /\ UNCHANGED << calls, _pending, _event_subs, reader, pendingAtEnd,
                    lastEvtAt, wsClosed >>

ReaderBreak(msg) ==
    /\ msg.type \in {"ERROR", "CLOSED"}
    /\ reader' = (IF msg.type = "ERROR" THEN "error" ELSE "eof")
    /\ pendingAtEnd' = NotDonePending(_pending, calls)
    /\ wsClosed' = TRUE
    /\ UNCHANGED << calls, _pending, _event_subs, lastEvtAt >>

ReaderExcept(msg) ==
    /\ ReaderRaises(msg)
    /\ reader' = (IF msg.type = "TEXT" THEN "decode_failed" ELSE "recv_raised")
    /\ pendingAtEnd' = NotDonePending(_pending, calls)
    /\ calls' = SetExceptions(calls, Range(_pending))
    /\ UNCHANGED << _pending, _event_subs, lastEvtAt, wsClosed >>

ReaderHandle(msg) ==
    /\ reader = "running"
    /\ msg.seq = nrecv + 1
    /\ nrecv' = nrecv + 1
    /\ \/ ReaderText(msg)
       \/ ReaderSkip(msg)
       \/ ReaderBreak(msg)
       \/ ReaderExcept(msg)
    /\ UNCHANGED << _id, closePc, nclose, pendingAtClose, waitVars >>

ReaderRecv(msg) == ReaderHandle(msg) /\ UNCHANGED lastMsg

\* the same step, with the message kept as history
ReaderTraced(msg) == ReaderHandle(msg) /\ lastMsg' = msg

(***************************************************************************)
(* CdpClient.close.  `await self.ws.close()` suspends the call when the    *)
(* websocket is not closed yet; the rest runs when it resumes.             *)
(* Cancelling the reader task raises CancelledError at its await, which    *)
(* the coroutine catches and returns: no pending future is touched.        *)
(***************************************************************************)
CancelReader ==
    IF reader = "running"
    THEN /\ reader' = "cancelled"
         /\ pendingAtEnd' = NotDonePending(_pending, calls)
    ELSE UNCHANGED << reader, pendingAtEnd >>

CloseStart ==
    /\ closePc # "closing"
    /\ nclose < MaxClose
    /\ nclose' = nclose + 1
    /\ pendingAtClose' = NotDonePending(_pending, calls)
    /\ IF ~wsClosed
       THEN /\ wsClosed' = TRUE
            /\ closePc' = "closing"
            /\ UNCHANGED << reader, pendingAtEnd >>
       ELSE /\ closePc' = "done"
            /\ CancelReader
            /\ UNCHANGED wsClosed
    /\ UNCHANGED << sendVars, _event_subs, nrecv, lastEvtAt, lastMsg, waitVars >>

CloseFinish ==
    /\ closePc = "closing"
    /\ closePc' = "done"
    /\ CancelReader
    /\ UNCHANGED << sendVars, _event_subs, nrecv, lastEvtAt, lastMsg, wsClosed,
                    nclose, pendingAtClose, waitVars >>

(***************************************************************************)
(* The request side of the client under any use: send calls, cancelled     *)
(* callers, close calls, and any stream of messages from the remote end    *)
(* (responses with any id, in any order, with or without an error member;  *)
(* events; text that does not decode; ERROR and CLOSED messages).          *)
(***************************************************************************)
ErrorValues == {"absent", "set"}

CallFrames(n) ==
    {TextFrame(i, e, "", "", n) : i \in 1..MaxCalls, e \in ErrorValues}
    \cup {TextFrame(0, "absent", "event", "", n), BadTextFrame(n)}
    \cup {OtherFrame(t, n) : t \in {"BINARY", "ERROR", "CLOSED", "RAISE"}}

ReadyIdle == [pc |-> "idle"]

IdleIdle == [pc |-> "idle"]

ResolveIdle == [pc |-> "idle"]

NavIdle == [pc |-> "idle"]

Init ==
    /\ ClientInit
    /\ now = 0
    /\ rs = ReadyIdle
    /\ ni = IdleIdle
    /\ rw = ResolveIdle
    /\ nav = NavIdle

Next ==
    \/ SendStart
    \/ \E k \in 1..Len(calls) : SendResume(k)
    \/ \E k \in 1..Len(calls) : CancelSend(k)
    \/ nrecv < MaxFrames /\ \E msg \in CallFrames(nrecv + 1) : ReaderRecv(msg)
    \/ CloseStart
    \/ CloseFinish

Spec == Init /\ [][Next]_vars

(***************************************************************************)
(* send calls and their answers: any response to any request, with an      *)
(* "error" member that is absent, falsy ("empty") or an error object, and  *)
(* with or without a "result" member; text that does not decode.           *)
(***************************************************************************)
ErrorMembers == ErrorValues \cup {"empty"}

SendFrames(n) ==
    {ResponseFrame(i, e, r, n) :
        i \in 1..MaxCalls, e \in ErrorMembers, r \in {"absent", "set"}}
    \cup {BadTextFrame(n)}

NextSend ==
    \/ SendStart
    \/ \E k \in 1..Len(calls) : SendResume(k)
    \/ nrecv < MaxFrames /\ \E msg \in SendFrames(nrecv + 1) : ReaderRecv(msg)

SpecSend == Init /\ [][NextSend]_vars

(***************************************************************************)
(* The reader followed message by message, on a client with send calls     *)
(* (some of them cancelled while they wait) and subscriptions made with   *)
(* subscribe's default capacity: any stream of text messages, responses    *)
(* with any id (so also a second response to one request), events, and     *)
(* text that does not decode.                                              *)
(***************************************************************************)
TracedFrames(n) ==
    {TextFrame(i, "absent", "", "", n) : i \in 1..MaxCalls}
    \cup {TextFrame(0, "absent", "event", "", n), BadTextFrame(n)}

NextTraced ==
    \/ SendStart
    \/ \E k \in 1..Len(calls) : SendResume(k)
    \/ \E k \in 1..Len(calls) : CancelSend(k)
    \/ Subscribe(DefaultMaxsize)
    \/ nrecv < MaxFrames /\ \E msg \in TracedFrames(nrecv + 1) : ReaderTraced(msg)

SpecTraced == Init /\ [][NextTraced]_vars

(***************************************************************************)
(* The event side of the client under any use: subscriptions made at any   *)
(* moment, consumers reading their queues at any pace, and any stream of   *)
(* events (and of messages that are not events) from the remote end.       *)
(***************************************************************************)
EventFrames(n) ==
    {TextFrame(0, "absent", "event", "", n), TextFrame(1, "absent", "", "", n),
     OtherFrame("BINARY", n), OtherFrame("CLOSED", n)}

NextEvents ==
    \/ \E m \in 1..MaxQueue : Subscribe(m)
    \/ \E i \in 1..Len(_event_subs) : QueueGet(i)
    \/ nrecv < MaxEvents /\ \E msg \in EventFrames(nrecv + 1) : ReaderRecv(msg)

SpecEvents == Init /\ [][NextEvents]_vars

(***************************************************************************)
(* wait_ready_state(cdp, want, timeout_s): asyncio.wait_for runs poll()    *)
(* and, when timeout_s has passed before poll() is done, cancels it and    *)
(* raises TimeoutError.  poll() sends Runtime.evaluate, returns when the    *)
(* value of the answer is accepted, and otherwise sleeps 0.1 s and sends   *)
(* again.  An exception of send leaves poll() and wait_for.                *)
(*                                                                         *)
(* In rs, seen (the values the polls have returned) is history.            *)
(***************************************************************************)
ReadyStates == {"", "loading", "interactive", "complete"}

\* (mutant) want = "load" accepts what want = "dom" accepts
ReadyAcceptedLoose(want, state) ==
    want \in {"dom", "load"} /\ state \in {"interactive", "complete"}

ReadyAccepted(want, state) ==
    \/ want = "dom" /\ state \in {"interactive", "complete"}
    \/ want = "load" /\ state = "complete"

ReadyStart(want, timeout) ==
    /\ rs.pc = "idle"
    /\ SendRegister
    /\ rs' = [pc |-> IF wsClosed THEN "raised" ELSE "polling",
              want |-> want, deadline |-> now + timeout,
              call |-> Len(calls) + 1, wake |-> 0, polls |-> 1, seen |-> << >>]
    /\ UNCHANGED << _event_subs, readerVars, closeVars, now, ni, rw, nav >>

ReadyResume ==
    /\ rs.pc = "polling"
    /\ calls[rs.call].st = "awaiting"
    /\ calls[rs.call].fut \in {"result", "exception"}
    /\ calls' = [calls EXCEPT ![rs.call] = SendFinish(calls[rs.call])]
    /\ IF SendOutcome(calls[rs.call]) = "raised"
       THEN rs' = [rs EXCEPT !.pc = "raised"]
       ELSE LET state == calls[rs.call].resp.value
            IN  IF ReadyAccepted(rs.want, state)
                THEN rs' = [rs EXCEPT !.pc = "ok", !.seen = Append(@, state)]
                ELSE rs' = [rs EXCEPT !.pc = "sleeping", !.seen = Append(@, state),
                                      !.wake = now + SleepTicks]
    /\ UNCHANGED << _id, _pending, _event_subs, readerVars, closeVars, now, ni, rw, nav >>

ReadyWake ==
    /\ rs.pc = "sleeping"
    /\ now >= rs.wake
    /\ SendRegister
    /\ rs' = [rs EXCEPT !.pc = IF wsClosed THEN "raised" ELSE "polling",
                        !.call = Len(calls) + 1, !.polls = @ + 1]
    /\ UNCHANGED << _event_subs, readerVars, closeVars, now, ni, rw, nav >>

ReadyTimeout ==
    /\ rs.pc \in {"polling", "sleeping"}
    /\ now >= rs.deadline
    /\ rs' = [rs EXCEPT !.pc = "timeout"]
    /\ IF rs.pc = "polling"
       THEN calls' = [calls EXCEPT
                ![rs.call].st = "cancelled",
                ![rs.call].fut = IF @ = "pending" THEN "cancelled" ELSE @]
       ELSE UNCHANGED calls
    /\ UNCHANGED << _id, _pending, _event_subs, readerVars, closeVars, now, ni, rw, nav >>

\* a task that can run, or a timer that is due, runs before time passes;
\* the clock starts with the call and is not followed after its end
ReadyUrgent ==
    \/ rs.pc = "polling" /\ FutDone(calls[rs.call])
    \/ rs.pc = "sleeping" /\ now >= rs.wake
    \/ rs.pc \in {"polling", "sleeping"} /\ now >= rs.deadline

ReadyTick ==
    /\ now <= MaxTimeout
    /\ rs.pc \in {"polling", "sleeping"}
    /\ ~ReadyUrgent
    /\ now' = now + 1
    /\ UNCHANGED << sendVars, _event_subs, readerVars, closeVars, rs, ni, rw, nav >>

(***************************************************************************)
(* wait_ready_state on a client nothing else uses, with any answers from   *)
(* the remote end (to any request sent so far, with any value, with or     *)
(* without an error), text that does not decode, or the end of the stream, *)
(* at any time.                                                            *)
(***************************************************************************)
ReadyFrames(n) ==
    {TextFrame(i, e, "", v, n) : i \in 1.._id, e \in ErrorValues, v \in ReadyStates}
    \cup {BadTextFrame(n), OtherFrame("CLOSED", n)}

NextReady ==
    \/ \E want \in {"dom", "load"}, timeout \in 1..MaxTimeout : ReadyStart(want, timeout)
    \/ ReadyResume
    \/ ReadyWake
    \/ ReadyTimeout
    \/ ReadyTick
    \/ nrecv < MaxReadyFrames /\ \E msg \in ReadyFrames(nrecv + 1) : ReaderRecv(msg)

SpecReady == Init /\ [][NextReady]_vars

(***************************************************************************)
(* wait_network_idle(cdp, quiet_ms, timeout_s).  The call sends            *)
(* Network.enable and, once that has returned, subscribes and sets its     *)
(* two deadlines.  Each turn of the loop reads the clock, raises           *)
(* TimeoutError at or after deadline, returns when inflight <= 0 at or     *)
(* after quiet_deadline, and otherwise waits for an event from its queue   *)
(* for min(0.25 s, deadline - now): an event updates inflight and          *)
(* quiet_deadline by its method, the end of that wait changes nothing.     *)
(*                                                                         *)
(* In ni, t0 (when the call was made), lastGot and steady are history.     *)
(***************************************************************************)
Min(a, b) == IF a <= b THEN a ELSE b

Max(a, b) == IF a >= b THEN a ELSE b

StartMethod == "Network.requestWillBeSent"

EndMethods == {"Network.loadingFinished", "Network.loadingFailed"}

\* (mutant) the quiet test comes before the deadline test
IdleLoopTopQuietFirst(r) ==
    IF r.inflight <= 0 /\ now >= r.quiet_deadline THEN [r EXCEPT !.pc = "ok"]
    ELSE IF now >= r.deadline THEN [r EXCEPT !.pc = "timeout"]
    ELSE [r EXCEPT !.pc = "waiting",
                   !.wake = now + Min(PollTicks, Max(0, r.deadline - now))]

\* (mutant) the quiet test does not look at inflight
IdleLoopTopAnyInflight(r) ==
    IF now >= r.deadline THEN [r EXCEPT !.pc = "timeout"]
    ELSE IF now >= r.quiet_deadline THEN [r EXCEPT !.pc = "ok"]
    ELSE [r EXCEPT !.pc = "waiting",
                   !.wake = now + Min(PollTicks, Max(0, r.deadline - now))]

\* the top of `while True` down to the await of the next event
IdleLoopTop(r) ==
    IF now >= r.deadline THEN [r EXCEPT !.pc = "timeout"]
    ELSE IF r.inflight <= 0 /\ now >= r.quiet_deadline THEN [r EXCEPT !.pc = "ok"]
    ELSE [r EXCEPT !.pc = "waiting",
                   !.wake = now + Min(PollTicks, Max(0, r.deadline - now))]

\* (mutant) an end event leaves quiet_deadline where it was
IdleOnEventNoPush(r, evt) ==
    IF evt.method = StartMethod
    THEN [r EXCEPT !.inflight = @ + 1, !.quiet_deadline = now + r.quiet]
    ELSE IF evt.method \in EndMethods
    THEN [r EXCEPT !.inflight = Max(0, @ - 1)]
    ELSE r

\* (mutant) the decrement is not clamped at zero
IdleOnEventNoClamp(r, evt) ==
    IF evt.method = StartMethod
    THEN [r EXCEPT !.inflight = @ + 1, !.quiet_deadline = now + r.quiet]
    ELSE IF evt.method \in EndMethods
    THEN [r EXCEPT !.inflight = @ - 1, !.quiet_deadline = now + r.quiet]
    ELSE r

\* the branches on evt.get("method", "")
IdleOnEvent(r, evt) ==
    IF evt.method = StartMethod
    THEN [r EXCEPT !.inflight = @ + 1, !.quiet_deadline = now + r.quiet]
    ELSE IF evt.method \in EndMethods
    THEN [r EXCEPT !.inflight = Max(0, @ - 1), !.quiet_deadline = now + r.quiet]
    ELSE r

\* history of the events counted: when the last one was taken from the
\* queue (the subscription, before the first), and whether each came less
\* than the quiet period after the one before
IdleNote(r, evt) ==
    IF evt.method \in {StartMethod} \cup EndMethods
    THEN [r EXCEPT !.lastGot = now, !.steady = @ /\ now - r.lastGot < r.quiet]
    ELSE r

IdleStart(quiet, timeout) ==
    /\ ni.pc = "idle"
    /\ SendRegister
    /\ ni' = [pc |-> IF wsClosed THEN "raised" ELSE "enabling",
              quiet |-> quiet, timeout |-> timeout, call |-> Len(calls) + 1,
              q |-> 0, inflight |-> 0, deadline |-> 0, quiet_deadline |-> 0,
              wake |-> 0, t0 |-> now, lastGot |-> 0, steady |-> TRUE]
    /\ UNCHANGED << _event_subs, readerVars, closeVars, now, rs, rw, nav >>

IdleEnabled ==
    /\ ni.pc = "enabling"
    /\ calls[ni.call].st = "awaiting"
    /\ calls[ni.call].fut \in {"result", "exception"}
    /\ calls' = [calls EXCEPT ![ni.call] = SendFinish(calls[ni.call])]
    /\ IF SendOutcome(calls[ni.call]) = "raised"
       THEN /\ ni' = [ni EXCEPT !.pc = "raised"]
            /\ UNCHANGED _event_subs
       ELSE /\ _event_subs' = Append(_event_subs, NewQueue(DefaultMaxsize))
            /\ ni' = IdleLoopTop([ni EXCEPT !.q = Len(_event_subs) + 1,
                                            !.inflight = 0,
                                            !.deadline = now + ni.timeout,
                                            !.quiet_deadline = now + ni.quiet,
                                            !.lastGot = now])
    /\ UNCHANGED << _id, _pending, readerVars, closeVars, now, rs, rw, nav >>

IdleGet ==
    /\ ni.pc = "waiting"
    /\ Len(_event_subs[ni.q].items) > 0
    /\ _event_subs' = [_event_subs EXCEPT
            ![ni.q].got = Append(@, Head(_event_subs[ni.q].items)),
            ![ni.q].items = Tail(@)]
    /\ ni' = IdleLoopTop(IdleOnEvent(IdleNote(ni, Head(_event_subs[ni.q].items)),
                                     Head(_event_subs[ni.q].items)))
    /\ UNCHANGED << sendVars, readerVars, closeVars, now, rs, rw, nav >>

IdleWaitTimeout ==
    /\ ni.pc = "waiting"
    /\ now >= ni.wake
    /\ ni' = IdleLoopTop(ni)
    /\ UNCHANGED << sendVars, _event_subs, readerVars, closeVars, now, rs, rw, nav >>

\* a task that can run, or a timer that is due, runs before time passes;
\* the clock starts with the call and is not followed after its end
IdleUrgent ==
    \/ ni.pc = "enabling" /\ FutDone(calls[ni.call])
    \/ ni.pc = "waiting" /\ Len(_event_subs[ni.q].items) > 0
    \/ ni.pc = "waiting" /\ now >= ni.wake

IdleTick ==
    /\ now <= MaxIdleTimeout
    /\ ni.pc \in {"enabling", "waiting"}
    /\ ~IdleUrgent
    /\ now' = now + 1
    /\ UNCHANGED << sendVars, _event_subs, readerVars, closeVars, rs, ni, rw, nav >>

(***************************************************************************)
(* wait_network_idle on a client nothing else uses.  Once the call has     *)
(* sent its request, the remote end sends the answer to it (with or        *)
(* without an error) and any events at any time; the reader may handle any *)
(* number of messages before the waiting task runs.                        *)
(***************************************************************************)
IdleMethods == {StartMethod} \cup EndMethods \cup {"Page.loadEventFired"}

IdleFrames(n) ==
    {TextFrame(i, e, "", "", n) : i \in DOMAIN _pending, e \in ErrorValues}
    \cup {TextFrame(0, "absent", m, "", n) : m \in IdleMethods}

NextIdle ==
    \/ \E quiet \in 1..MaxQuiet, timeout \in 1..MaxIdleTimeout : IdleStart(quiet, timeout)
    \/ IdleEnabled
    \/ IdleGet
    \/ IdleWaitTimeout
    \/ IdleTick
    \/ /\ ni.pc # "idle"
       /\ nrecv < MaxIdleFrames
       /\ \E msg \in IdleFrames(nrecv + 1) : ReaderRecv(msg)

SpecIdle == Init /\ [][NextIdle]_vars

(***************************************************************************)
(* HttpClient.resolve_ws_url(target_or_ws).  Strings are sequences of      *)
(* characters.  An argument that starts with ws:// or wss:// is returned   *)
(* at once; otherwise the call awaits list_tabs() and goes through the     *)
(* tabs in order: the first tab whose id is the argument ends the loop,    *)
(* with its webSocketDebuggerUrl returned when that is not empty; in every *)
(* other case the call raises RuntimeError.                                *)
(***************************************************************************)
WsPrefix == << "w", "s", ":", "/", "/" >>

WssPrefix == << "w", "s", "s", ":", "/", "/" >>

\* str.startswith
StartsWith(str, prefix) ==
    Len(str) >= Len(prefix) /\ SubSeq(str, 1, Len(prefix)) = prefix

\* (mutant) the webSocketDebuggerUrl of the tab is returned, empty or not
TabResultAnyUrl(t) ==
    [pc |-> "returned", out |-> t.webSocketDebuggerUrl]

\* the body of `if t.id == target_or_ws`: return the URL, or break and raise
TabResult(t) ==
    IF t.webSocketDebuggerUrl # << >>
    THEN [pc |-> "returned", out |-> t.webSocketDebuggerUrl]
    ELSE [pc |-> "raised", out |-> << >>]

\* `for t in tabs` and the raise after it
RECURSIVE ResolveLoop(_, _)
ResolveLoop(tabs, target_or_ws) ==
    IF tabs = << >> THEN [pc |-> "raised", out |-> << >>]
    ELSE IF Head(tabs).id = target_or_ws THEN TabResult(Head(tabs))
    ELSE ResolveLoop(Tail(tabs), target_or_ws)

ResolveStart(target_or_ws) ==
    /\ rw.pc = "idle"
    /\ rw' = IF StartsWith(target_or_ws, WsPrefix) \/ StartsWith(target_or_ws, WssPrefix)
             THEN [pc |-> "returned", target_or_ws |-> target_or_ws,
                   tabs |-> << >>, out |-> target_or_ws]
             ELSE [pc |-> "listing", target_or_ws |-> target_or_ws,
                   tabs |-> << >>, out |-> << >>]
    /\ UNCHANGED << sendVars, _event_subs, readerVars, closeVars, now, rs, ni, nav >>

\* list_tabs() has returned tabs
ResolveListed(tabs) ==
    /\ rw.pc = "listing"
    /\ rw' = [rw EXCEPT !.tabs = tabs,
                        !.pc = ResolveLoop(tabs, rw.target_or_ws).pc,
                        !.out = ResolveLoop(tabs, rw.target_or_ws).out]
    /\ UNCHANGED << sendVars, _event_subs, readerVars, closeVars, now, rs, ni, nav >>

(***************************************************************************)
(* resolve_ws_url with any argument (websocket URLs of both schemes, near  *)
(* misses of the prefixes, the empty string, ids of tabs, ids of no tab)   *)
(* and any answer of list_tabs: up to MaxTabs tabs with different ids (the *)
(* id is "" when the browser's answer has none), each with or without a    *)
(* webSocketDebuggerUrl.                                                   *)
(***************************************************************************)
TabIds == {<< "t", "1" >>, << "t", "2" >>, << >>}

TabUrls == {<< >>, WsPrefix \o << "x" >>, WsPrefix \o << "y" >>}

ResolveArgs ==
    TabIds \cup {<< "t", "9" >>, << "w", "s", ":", "/" >>, << "w", "s", "s" >>,
                 WsPrefix, WsPrefix \o << "a" >>, WssPrefix \o << "b" >>}

TabLists ==
    {tabs \in UNION {[1..n -> [id : TabIds, webSocketDebuggerUrl : TabUrls]] :
                        n \in 0..MaxTabs} :
        \A i, j \in 1..Len(tabs) : tabs[i].id = tabs[j].id => i = j}

NextResolve ==
    \/ \E target_or_ws \in ResolveArgs : ResolveStart(target_or_ws)
    \/ \E tabs \in TabLists : ResolveListed(tabs)

SpecResolve == Init /\ [][NextResolve]_vars

(***************************************************************************)
(* cmd_navigate(http, target, url, wait, timeout_s), from the connected    *)
(* client on: the four requests Page.enable, Network.enable,               *)
(* Runtime.enable and Page.navigate, each sent when the one before has     *)
(* returned; then, for wait = "idle", wait_network_idle(cdp, 500,          *)
(* timeout_s); and cdp.close() in the `finally`, also when a request or    *)
(* the wait raises.                                                        *)
(*                                                                         *)
(* In nav, navAt (the number of messages the reader had handled when       *)
(* Page.navigate was sent, -1 before) is history.                          *)
(***************************************************************************)
NavMethods == << "Page.enable", "Network.enable", "Runtime.enable", "Page.navigate" >>

NavStart(wait, timeout) ==
    /\ nav.pc = "idle"
    /\ SendRegister
    /\ nav' = [pc |-> IF wsClosed THEN "finally" ELSE "sending", step |-> 1,
               wait |-> wait, timeout |-> timeout, call |-> Len(calls) + 1,
               navAt |-> -1]
    /\ UNCHANGED << _event_subs, readerVars, closeVars, now, rs, ni, rw >>

\* a request has returned or raised: the next request, the wait, or the
\* `finally`
NavResume ==
    /\ nav.pc = "sending"
    /\ calls[nav.call].st = "awaiting"
    /\ calls[nav.call].fut \in {"result", "exception"}
    /\ LET done == [calls EXCEPT ![nav.call] = SendFinish(calls[nav.call])]
           msg_id == NextId(_id)
       IN  IF done[nav.call].st = "raised"
           THEN /\ calls' = done
                /\ nav' = [nav EXCEPT !.pc = "finally"]
                /\ UNCHANGED << _id, _pending >>
           ELSE IF nav.step < Len(NavMethods)
           THEN /\ _id' = msg_id
                /\ _pending' = PendingWith(_pending, msg_id, Len(calls) + 1)
                /\ calls' = Append(done, NewCall(msg_id))
                /\ nav' = [nav EXCEPT
                      !.pc = IF wsClosed THEN "finally" ELSE "sending",
                      !.step = @ + 1,
                      !.call = Len(calls) + 1,
                      !.navAt = IF NavMethods[nav.step + 1] = "Page.navigate"
                                THEN nrecv ELSE @]
           ELSE /\ calls' = done
                /\ nav' = [nav EXCEPT
                      !.pc = IF nav.wait = "idle" THEN "wait" ELSE "finally"]
                /\ UNCHANGED << _id, _pending >>
    /\ UNCHANGED << _event_subs, readerVars, closeVars, now, rs, ni, rw >>

\* `await wait_network_idle(cdp, 500, timeout_s)` is entered
NavWait ==
    /\ nav.pc = "wait"
    /\ IdleStart(NavQuiet, nav.timeout)

\* `finally: await cdp.close()`
NavFinally ==
    /\ \/ nav.pc = "finally"
       \/ nav.pc = "wait" /\ ni.pc \in {"ok", "timeout", "raised"}
    /\ nclose = 0
    /\ CloseStart

(***************************************************************************)
(* cmd_navigate with wait = "none" or "idle" on a new client.  The remote  *)
(* end answers any request that is pending (with or without an error) and  *)
(* sends requestWillBeSent and loadingFinished events at any time.         *)
(***************************************************************************)
NavFrames(n) ==
    {TextFrame(i, e, "", "", n) : i \in DOMAIN _pending, e \in ErrorValues}
    \cup {TextFrame(0, "absent", m, "", n) :
             m \in {StartMethod, "Network.loadingFinished"}}

NextNavigate ==
    \/ \E wait \in {"none", "idle"}, timeout \in 1..MaxIdleTimeout :
          NavStart(wait, timeout)
    \/ NavResume
    \/ NavWait
    \/ IdleEnabled
    \/ IdleGet
    \/ IdleWaitTimeout
    \/ IdleTick
    \/ NavFinally
    \/ CloseFinish
    \/ /\ nav.pc # "idle"
       /\ nrecv < MaxNavFrames
       /\ \E msg \in NavFrames(nrecv + 1) : ReaderTraced(msg)

SpecNavigate == Init /\ [][NextNavigate]_vars

(***************************************************************************)
(*                     Properties of the request side                      *)
(***************************************************************************)

\* C1: whatever number of send calls are outstanding and in whatever order
\* the responses arrive, the response a send call receives as the result of
\* its future carries the id that the call allocated for its own request.
C1_OwnResponse ==
    \A k \in 1..Len(calls) :
        calls[k].fut = "result" => calls[k].resp.id = calls[k].msg_id

\* Three calls were outstanding together and two of them have returned with
\* responses that arrived in the reverse of the request order.
C1_Witness ==
    /\ Len(calls) >= 3
    /\ \E j, k \in 1..Len(calls) :
          /\ j < k
          /\ calls[j].st = "returned" /\ calls[k].st = "returned"
          /\ calls[k].resp.seq < calls[j].resp.seq

\* C2: once close has returned, no send call that was awaiting its response
\* when close was called is still unresolved (each has got an error).
C2_CloseResolvesPending ==
    closePc = "done" => \A k \in pendingAtClose : calls[k].fut # "pending"

\* C3: when the reader loop has ended on an ERROR message or on the end of
\* the message stream, every request that was pending at that moment has
\* been resolved.
C3_TransportErrorResolvesPending ==
    reader \in {"error", "eof"} => \A k \in pendingAtEnd : calls[k].fut # "pending"

\* C4: when a text message fails to decode, the reader loop ends and every
\* request pending at that moment has an exception set on its future, so
\* that its send call raises and never returns.
C4_DecodeFailureResolvesAll ==
    reader = "decode_failed" =>
        \A k \in pendingAtEnd :
            /\ calls[k].fut = "exception"
            /\ calls[k].st \in {"awaiting", "raised"}

\* A decode failure met several awaiting send calls, and all of them raised.
C4_Witness ==
    /\ reader = "decode_failed"
    /\ Cardinality(pendingAtEnd) >= 2
    /\ \A k \in pendingAtEnd : calls[k].st = "raised" /\ calls[k].fut = "exception"

\* C5: the request ids allocated are above zero and strictly increasing in
\* the order of allocation, hence never allocated twice.
C5_IdsIncrease ==
    \A k \in 1..Len(calls) :
        /\ calls[k].msg_id > 0
        /\ \A j \in 1..(k - 1) : calls[j].msg_id < calls[k].msg_id

\* Three ids were allocated, the last one after an earlier call had returned.
C5_Witness ==
    /\ Len(calls) >= 3
    /\ calls[1].st = "returned"
    /\ calls[3].fut = "pending"
    /\ calls[3].resp = NoFrame
    /\ calls[1].resp.seq = 1

(***************************************************************************)
(*                      Properties of the event side                       *)
(***************************************************************************)
Last(s) == s[Len(s)]

\* a is b with some elements left out, the order kept
RECURSIVE IsSubSeq(_, _)
IsSubSeq(a, b) ==
    IF a = << >> THEN TRUE
    ELSE IF b = << >> THEN FALSE
    ELSE IF Head(a) = Head(b) THEN IsSubSeq(Tail(a), Tail(b))
    ELSE IsSubSeq(a, Tail(b))

\* C6: no queue ever holds more than maxsize events, and in every step in
\* which the reader handles an event, a queue that is full is left as it is
\* while every queue with free space gets the event appended, and the reader
\* goes on running.
C6_FullQueueDropsLocally ==
    [][\A i \in 1..Len(_event_subs) :
          LET q == _event_subs[i]
              q2 == _event_subs'[i]
          IN  /\ Len(q2.items) <= q2.maxsize
              /\ Len(q2.offered) > Len(q.offered) =>
                    /\ reader' = "running"
                    /\ q2.items = IF Len(q.items) >= q.maxsize THEN q.items
                                  ELSE Append(q.items, Last(q2.offered))]_vars

\* One queue is full and has missed the last event, which another queue
\* has received.
C6_Witness ==
    \E i, j \in 1..Len(_event_subs) :
        LET q == _event_subs[i]
            r == _event_subs[j]
        IN  /\ i # j
            /\ Len(q.items) = q.maxsize
            /\ Len(q.offered) > 0
            /\ Last(q.offered) \notin SeqToSet(q.got \o q.items)
            /\ Len(r.items) > 0
            /\ Last(r.items) = Last(q.offered)

\* C7: a queue never contains (and its owner never reads) an event that the
\* reader handled before the subscribe call that created the queue.
C7_NoHistory ==
    \A i \in 1..Len(_event_subs) :
        \A e \in SeqToSet(_event_subs[i].got \o _event_subs[i].items) :
            e.seq > _event_subs[i].regAt

\* A queue registered after an event had been handled (an earlier queue was
\* offered it) has received a later event.
C7_Witness ==
    \E i, j \in 1..Len(_event_subs) :
        /\ Len(_event_subs[i].offered) > 0
        /\ _event_subs[i].offered[1].seq <= _event_subs[j].regAt
        /\ Len(_event_subs[j].got) > 0

\* C8: what the owner of a queue has read, followed by what the queue still
\* holds, is the events the reader handled since the registration with some
\* left out: in the order the reader handled them, none of them twice.
C8_OrderPreserved ==
    \A i \in 1..Len(_event_subs) :
        LET q == _event_subs[i]
            s == q.got \o q.items
        IN  /\ IsSubSeq(s, q.offered)
            /\ \A a, b \in 1..Len(s) : a < b => s[a].seq < s[b].seq
            /\ \A a \in 1..Len(q.offered) :
                  /\ q.offered[a].seq > q.regAt
                  /\ \A b \in 1..Len(q.offered) :
                        a < b => q.offered[a].seq < q.offered[b].seq

\* The owner of a queue has read two events, between which the full queue
\* dropped one.
C8_Witness ==
    \E i \in 1..Len(_event_subs) :
        LET q == _event_subs[i]
        IN  /\ Len(q.got) >= 2
            /\ \E a \in 1..Len(q.offered) :
                  /\ q.got[1].seq < q.offered[a].seq
                  /\ q.offered[a].seq < q.got[2].seq

\* C14: a send call whose response has no error (no "error" member, or a
\* falsy one) returns the response's result, or an empty object when the
\* response has no result; a send call whose response has an error object
\* raises an error made of that object's code and message, and returns
\* nothing.
C14_SendReturnsOrRaises ==
    \A k \in 1..Len(calls) :
        (calls[k].fut = "result" /\ calls[k].st # "awaiting") =>
            LET resp == calls[k].resp
            IN  /\ resp.id = calls[k].msg_id
                /\ resp.error = "set" =>
                      /\ calls[k].st = "raised"
                      /\ calls[k].ret = [what |-> "CDP error", of |-> resp.seq]
                /\ (resp.error # "set" /\ resp.result = "set") =>
                      /\ calls[k].st = "returned"
                      /\ calls[k].ret = [what |-> "result", of |-> resp.seq]
                /\ (resp.error # "set" /\ resp.result = "absent") =>
                      /\ calls[k].st = "returned"
                      /\ calls[k].ret = [what |-> "{}", of |-> 0]

\* Three send calls are over: one returned the result of its response, one
\* returned an empty object, one raised on a response that had both an
\* error object and a result.
C14_Witness ==
    /\ Len(calls) = 3
    /\ \E a, b, c \in 1..3 :
          /\ calls[a].ret.what = "result" /\ calls[a].st = "returned"
          /\ calls[b].ret.what = "{}" /\ calls[b].st = "returned"
          /\ calls[c].ret.what = "CDP error" /\ calls[c].st = "raised"
          /\ calls[c].resp.result = "set"

\* C15: a send call made when the reader task has ended (on a message that
\* does not decode, on a transport error, or by close) raises to its
\* caller; it is not left awaiting a future that nothing will resolve.
C15_SendAfterReaderEndFails ==
    [][(reader # "running" /\ Len(calls') = Len(calls) + 1)
          => calls'[Len(calls')].st = "raised"]_vars

\* C16: a close call made after a close call has completed, or after the
\* reader task has ended on its own, does not close the websocket, cancels
\* no task and leaves the state of the client as it was.
C16_CloseIdempotent ==
    [][((closePc = "done" \/ reader # "running") /\ nclose' = nclose + 1)
          => /\ wsClosed' = wsClosed
             /\ reader' = reader
             /\ << _id, calls, _pending, _event_subs >>' =
                    << _id, calls, _pending, _event_subs >>]_vars

\* C18: when the reader handles a response whose id is that of a send call
\* cancelled while it waited, the entry of that id leaves _pending, every
\* other entry stays, no call changes (the response is dropped and the
\* outcome of every other request is what it was), no subscription is
\* offered anything, and the reader task goes on running.
C18_CancelledSendIsDiscarded ==
    [][(/\ nrecv' = nrecv + 1
        /\ lastMsg'.type = "TEXT" /\ lastMsg'.ok
        /\ lastMsg'.id \in DOMAIN _pending
        /\ calls[_pending[lastMsg'.id]].fut = "cancelled")
          => /\ _pending' = PendingWithout(_pending, lastMsg'.id)
             /\ calls' = calls
             /\ _event_subs' = _event_subs
             /\ reader' = "running"]_vars

\* The reader has just handled the response to a cancelled send call: the
\* call's future is still cancelled, its id is no longer in _pending, and
\* another request is still pending.
C18_Witness ==
    /\ lastMsg.type = "TEXT" /\ lastMsg.id # 0
    /\ lastMsg.id \notin DOMAIN _pending
    /\ reader = "running"
    /\ \E k \in 1..Len(calls) :
          /\ calls[k].msg_id = lastMsg.id
          /\ calls[k].fut = "cancelled"
          /\ calls[k].st = "cancelled"
    /\ \E j \in DOMAIN _pending : calls[_pending[j]].fut = "pending"

\* C21: a future that is done stays as it is, with the result or the
\* exception it has (or cancelled): nothing is set on it a second time,
\* whatever responses (a second one for the same id included), reader
\* errors and cancellations follow.  Each id in _pending is the id of the
\* one call whose future it maps to, and no two calls have the same id.
C21_ResolvedOnce ==
    /\ [](/\ \A i \in DOMAIN _pending : calls[_pending[i]].msg_id = i
          /\ \A k, j \in 1..Len(calls) :
                calls[k].msg_id = calls[j].msg_id => k = j)
    /\ [][\A k \in 1..Len(calls) :
            FutDone(calls[k]) =>
                /\ calls'[k].fut = calls[k].fut
                /\ calls'[k].resp = calls[k].resp]_vars

\* The reader has just handled a second response for the id of a call
\* whose future holds the first one, while another call is cancelled.
C21_Witness ==
    /\ lastMsg.type = "TEXT" /\ lastMsg.ok /\ lastMsg.id # 0
    /\ \E k \in 1..Len(calls) :
          /\ calls[k].msg_id = lastMsg.id
          /\ calls[k].fut = "result"
          /\ calls[k].resp.seq < lastMsg.seq
    /\ \E j \in 1..Len(calls) : calls[j].fut = "cancelled"

\* C20: every message that decodes is handled as a response or as an
\* event: with a non-zero id that is in _pending, it resolves the future
\* of that id and no subscription is offered it; in every other case (no
\* id, id zero, an id that is not in _pending) it is offered to every
\* subscription.
C20_ResponseOrEvent ==
    [][(nrecv' = nrecv + 1 /\ lastMsg'.type = "TEXT" /\ lastMsg'.ok)
          => IF lastMsg'.id # 0 /\ lastMsg'.id \in DOMAIN _pending
             THEN /\ ~FutDone(calls[_pending[lastMsg'.id]]) =>
                        /\ calls'[_pending[lastMsg'.id]].fut = "result"
                        /\ calls'[_pending[lastMsg'.id]].resp = lastMsg'
                  /\ _event_subs' = _event_subs
             ELSE \A i \in 1..Len(_event_subs) :
                      _event_subs'[i].offered =
                          Append(_event_subs[i].offered, lastMsg')]_vars

(***************************************************************************)
(*                     Properties of wait_ready_state                      *)
(***************************************************************************)
AcceptedStates(want) ==
    IF want = "dom" THEN {"interactive", "complete"} ELSE {"complete"}

\* C9: wait_ready_state returns at the first poll whose value is in the
\* accepted set (interactive or complete for dom, complete for load) and
\* sends no poll after it; it raises the timeout error only when timeout_s
\* has passed with no poll having returned an accepted value, and it does
\* not go on waiting once timeout_s has passed.
C9_ReadyState ==
    rs.pc # "idle" =>
        /\ \A i \in 1..Len(rs.seen) :
              rs.seen[i] \in AcceptedStates(rs.want) =>
                  i = Len(rs.seen) /\ rs.pc = "ok"
        /\ rs.pc = "ok" =>
              /\ Len(rs.seen) >= 1
              /\ rs.seen[Len(rs.seen)] \in AcceptedStates(rs.want)
              /\ rs.polls = Len(rs.seen)
              /\ _id = rs.polls
        /\ rs.pc = "timeout" =>
              /\ now >= rs.deadline
              /\ \A i \in 1..Len(rs.seen) : rs.seen[i] \notin AcceptedStates(rs.want)
        /\ now > rs.deadline => rs.pc \in {"ok", "timeout", "raised"}

\* wait_ready_state(want="load") has returned at its third poll, after polls
\* that returned loading and interactive.
C9_Witness ==
    /\ rs.pc = "ok"
    /\ rs.want = "load"
    /\ rs.seen = << "loading", "interactive", "complete" >>

(***************************************************************************)
(*                     Properties of wait_network_idle                     *)
(***************************************************************************)

\* the events handled by the reader since wait_network_idle subscribed are
\* n requestWillBeSent followed by n loadingFinished/loadingFailed, n >= 1
IdleBurst(o) ==
    /\ Len(o) >= 2
    /\ Len(o) % 2 = 0
    /\ \A a \in 1..Len(o) :
          IF 2 * a <= Len(o) THEN o[a].method = StartMethod
          ELSE o[a].method \in EndMethods

\* C10: when the events since the subscription are a burst of N starts
\* followed by N ends, and the overall deadline lies more than one quiet
\* period plus one polling interval after the last of them, the call does
\* not end with TimeoutError (time cannot pass the deadline with the call
\* still waiting, so it returns).
C10_BurstThenQuietSucceeds ==
    (/\ ni.pc \in {"waiting", "ok", "timeout"}
     /\ IdleBurst(_event_subs[ni.q].offered)
     /\ ni.deadline > lastEvtAt + ni.quiet + PollTicks)
        => ni.pc # "timeout"

\* C11: while start/end events keep being taken from the queue, each less
\* than the quiet period after the one before (the first less than the
\* quiet period after the subscription), the call does not return: a
\* return needs a whole quiet period without such an event.  The wait for
\* the next event never lasts beyond the overall deadline, so the call is
\* not left waiting and ends with TimeoutError, at or after the deadline.
C11_SteadyEventsTimeOut ==
    ni.pc \in {"waiting", "ok", "timeout"} =>
        /\ (ni.steady /\ now - ni.lastGot < ni.quiet) => ni.pc # "ok"
        /\ ni.pc = "ok" => now - ni.lastGot >= ni.quiet
        /\ ni.pc = "waiting" => now <= ni.wake /\ ni.wake <= ni.deadline
        /\ ni.pc = "timeout" => now >= ni.deadline

\* Three start/end events, each less than a quiet period after the one
\* before, have been taken; no request is in flight; the call has raised
\* TimeoutError.
C11_Witness ==
    /\ ni.pc = "timeout"
    /\ ni.steady
    /\ now - ni.lastGot < ni.quiet
    /\ ni.inflight = 0
    /\ Len(_event_subs[ni.q].got) >= 3
    /\ \A a \in 1..Len(_event_subs[ni.q].got) :
          _event_subs[ni.q].got[a].method \in {StartMethod} \cup EndMethods

\* C12: a turn of the loop taken at or after the overall deadline ends the
\* call with TimeoutError, whatever inflight and quiet_deadline are, and
\* the call never returns at or after the overall deadline.
C12_DeadlineHasPriority ==
    /\ [](ni.pc = "ok" => now < ni.deadline)
    /\ [][(ni.pc = "waiting" /\ ni' # ni /\ now >= ni.deadline)
              => ni'.pc = "timeout"]_vars

\* The call has raised TimeoutError with no request in flight and the quiet
\* period over.
C12_Witness ==
    /\ ni.pc = "timeout"
    /\ ni.inflight = 0
    /\ now >= ni.quiet_deadline

\* C13: inflight is never negative, whatever start and end events are
\* taken from the queue, in whatever order.
C13_InflightNeverNegative ==
    ni.pc # "idle" => ni.inflight >= 0

\* The first event taken from the queue was a loadingFinished or
\* loadingFailed with no request in flight.
C13_Witness ==
    /\ ni.pc \in {"waiting", "ok", "timeout"}
    /\ Len(_event_subs[ni.q].got) = 1
    /\ _event_subs[ni.q].got[1].method \in EndMethods
    /\ ni.inflight = 0

\* C17: neither wait is still running later than timeout_s after it was
\* called, whether or not the remote end answers the requests it sends
\* (Runtime.evaluate for wait_ready_state, Network.enable for
\* wait_network_idle).
C17_WaitsEndWithinTimeout ==
    /\ rs.pc \in {"polling", "sleeping"} => now <= rs.deadline
    /\ ni.pc \in {"enabling", "waiting"} => now <= ni.t0 + ni.timeout

\* C23: the wait for the next event ends no later than the earlier of
\* deadline and quiet_deadline; so a call with no request in flight, no
\* event left to take and quiet_deadline before deadline does not end with
\* TimeoutError.
C23_WakesAtQuietDeadline ==
    /\ (ni.pc = "waiting" /\ ni.inflight <= 0) =>
            ni.wake <= Min(ni.deadline, ni.quiet_deadline)
    /\ ni.pc = "timeout" =>
            ~(/\ ni.inflight <= 0
              /\ ni.quiet_deadline < ni.deadline
              /\ _event_subs[ni.q].items = << >>
              /\ lastEvtAt <= ni.lastGot)

\* C24: once wait_network_idle has returned or raised, the queue it
\* subscribed with is not in _event_subs any more.
C24_QueueRemovedAfterWait ==
    ni.pc \in {"ok", "timeout", "raised"} => Len(_event_subs) = 0

\* C25: wait_network_idle returns only with inflight at zero, at least the
\* quiet period after the call was made and after the last start/end event
\* it took from the queue, and before the overall deadline.
C25_SuccessMeansQuiet ==
    ni.pc = "ok" =>
        /\ ni.inflight = 0
        /\ now - ni.t0 >= ni.quiet
        /\ now - ni.lastGot >= ni.quiet
        /\ now < ni.deadline

\* The call has returned after taking a requestWillBeSent and then a
\* loadingFinished or loadingFailed from the queue.
C25_Witness ==
    /\ ni.pc = "ok"
    /\ Len(_event_subs[ni.q].got) = 2
    /\ _event_subs[ni.q].got[1].method = StartMethod
    /\ _event_subs[ni.q].got[2].method \in EndMethods
    /\ ni.lastGot > 0

(***************************************************************************)
(*                        Properties of cmd_navigate                       *)
(***************************************************************************)

\* C22: in cmd_navigate with wait = "idle", the queue of the wait is in
\* _event_subs from the moment Page.navigate is sent, so the reader
\* handles no requestWillBeSent that follows Page.navigate with no
\* subscription registered.
C22_SubscribedBeforeNavigate ==
    (nav.pc # "idle" /\ nav.wait = "idle" /\ nav.navAt >= 0) =>
        /\ nav.pc = "sending" => Len(_event_subs) > 0
        /\ ~(/\ lastMsg.type = "TEXT"
              /\ lastMsg.method = StartMethod
              /\ lastMsg.seq > nav.navAt
              /\ Len(_event_subs) = 0)

(***************************************************************************)
(*                       Properties of resolve_ws_url                      *)
(***************************************************************************)

\* C19: resolve_ws_url returns its argument when the argument starts with
\* ws:// or wss://; otherwise, when a listed tab has the argument as its id
\* and a webSocketDebuggerUrl that is not empty, it returns that URL; and
\* otherwise (no listed tab with that id, or one with an empty URL) it
\* raises.
C19_ResolveWsUrl ==
    rw.pc \in {"returned", "raised"} =>
        LET arg == rw.target_or_ws
            hits == {i \in 1..Len(rw.tabs) : rw.tabs[i].id = arg}
        IN  IF StartsWith(arg, WsPrefix) \/ StartsWith(arg, WssPrefix)
            THEN rw.pc = "returned" /\ rw.out = arg
            ELSE IF \E i \in hits : rw.tabs[i].webSocketDebuggerUrl # << >>
            THEN /\ rw.pc = "returned"
                 /\ \E i \in hits : rw.out = rw.tabs[i].webSocketDebuggerUrl
            ELSE rw.pc = "raised"

\* The call has returned the URL of the second listed tab, the first tab
\* having another id and no URL.
C19_Witness ==
    /\ rw.pc = "returned"
    /\ Len(rw.tabs) = 2
    /\ rw.tabs[1].webSocketDebuggerUrl = << >>
    /\ rw.tabs[2].id = rw.target_or_ws
    /\ rw.out = rw.tabs[2].webSocketDebuggerUrl
    /\ rw.out # << >>

=============================================================================
